---- MODULE Spec2Model ----
(***************************************************************************)
(* Model of uv-auth's Credentials (crates/uv-auth/src/credentials.rs).     *)
(*                                                                         *)
(* Text is modelled as a sequence of bytes (0..255): a Rust String is a    *)
(* valid UTF-8 byte sequence, a HeaderValue is an arbitrary byte sequence. *)
(* Option<T> is the record [kind |-> "none"] or [kind |-> "some", value].  *)
(* A panic (expect/unwrap failing) is the outcome [kind |-> "fatal"].      *)
(***************************************************************************)
EXTENDS Integers, Sequences, FiniteSets, TLC

VARIABLES
  url,          \* the Url handed to from_url / from_netrc
  netrc,        \* the parsed netrc table (Netrc.hosts)
  expected,     \* from_netrc's username argument
  header,       \* the HeaderValue at hand
  credentials,  \* the Credentials value at hand
  request,      \* the reqwest::Request
  result,       \* what the last parsing call returned
  op,           \* the last call made
  prior,        \* number of Authorization values the request held before
                \* the last authenticate call
  debug_assertions  \* cfg!(debug_assertions): whether the build keeps
                    \* debug_assert! (cargo test, debug) or not (release)

vars == <<url, netrc, expected, header, credentials, request, result, op, prior,
          debug_assertions>>

----------------------------------------------------------------------------
(* Option, outcomes *)

None == [kind |-> "none"]

Some(v) == [kind |-> "some", value |-> v]

Fatal == [kind |-> "fatal"]

\* Some(v) of a call that returned v, Fatal of a call that panicked.
SomeUnlessFatal(v) == IF v = Fatal THEN Fatal ELSE Some(v)

\* A variable that holds no value in the scenario at hand.
Unset == [kind |-> "unset"]

\* Option::unwrap_or_default on Option<&str>
unwrap_or_default(o) == IF o.kind = "some" THEN o.value ELSE <<>>

----------------------------------------------------------------------------
(* Byte strings *)

\* All sequences over A of length at most n.
SeqsUpTo(A, n) == UNION {[1..k -> A] : k \in 0..n}

Drop(s, k) == SubSeq(s, k + 1, Len(s))

Take(s, k) == SubSeq(s, 1, k)

\* <[u8]>::strip_prefix: Some(rest) when s starts with p, else None.
strip_prefix(s, p) ==
  IF Len(s) >= Len(p) /\ Take(s, Len(p)) = p THEN Some(Drop(s, Len(p))) ELSE None

\* Index of the first occurrence of byte b in s, 0 when there is none.
IndexOf(s, b) ==
  IF \E i \in 1..Len(s) : s[i] = b
  THEN CHOOSE i \in 1..Len(s) : s[i] = b /\ \A j \in 1..(i - 1) : s[j] # b
  ELSE 0

\* str::split_once(':'): Some(<<before, after>>) around the first ':' (byte 58).
split_once(s) ==
  LET i == IndexOf(s, 58)
  IN IF i = 0 THEN None ELSE Some(<<Take(s, i - 1), Drop(s, i)>>)

IsCont(b) == b >= 128 /\ b <= 191

\* Number of bytes of the well-formed UTF-8 scalar value at the head of s,
\* 0 when the head is ill-formed (core::str::from_utf8's acceptance table).
Utf8Width(s) ==
  LET n == Len(s)
      b == s[1]
  IN IF b < 128 THEN 1
     ELSE IF b >= 194 /\ b <= 223
       THEN IF n >= 2 /\ IsCont(s[2]) THEN 2 ELSE 0
     ELSE IF b = 224
       THEN IF n >= 3 /\ s[2] >= 160 /\ s[2] <= 191 /\ IsCont(s[3]) THEN 3 ELSE 0
     ELSE IF (b >= 225 /\ b <= 236) \/ b = 238 \/ b = 239
       THEN IF n >= 3 /\ IsCont(s[2]) /\ IsCont(s[3]) THEN 3 ELSE 0
     ELSE IF b = 237
       THEN IF n >= 3 /\ s[2] >= 128 /\ s[2] <= 159 /\ IsCont(s[3]) THEN 3 ELSE 0
     ELSE IF b = 240
       THEN IF n >= 4 /\ s[2] >= 144 /\ s[2] <= 191 /\ IsCont(s[3]) /\ IsCont(s[4])
            THEN 4 ELSE 0
     ELSE IF b >= 241 /\ b <= 243
       THEN IF n >= 4 /\ IsCont(s[2]) /\ IsCont(s[3]) /\ IsCont(s[4]) THEN 4 ELSE 0
     ELSE IF b = 244
       THEN IF n >= 4 /\ s[2] >= 128 /\ s[2] <= 143 /\ IsCont(s[3]) /\ IsCont(s[4])
            THEN 4 ELSE 0
     ELSE 0

RECURSIVE IsUtf8(_)
\* String::from_utf8 / read_to_string succeed exactly on well-formed UTF-8.
IsUtf8(s) ==
  IF s = <<>> THEN TRUE
  ELSE LET w == Utf8Width(s)
       IN IF w = 0 THEN FALSE ELSE IsUtf8(Drop(s, w))

----------------------------------------------------------------------------
(* Percent-decoding (urlencoding::decode) *)

IsHex(b) == (b >= 48 /\ b <= 57) \/ (b >= 65 /\ b <= 70) \/ (b >= 97 /\ b <= 102)

HexVal(b) == IF b <= 57 THEN b - 48 ELSE IF b <= 70 THEN b - 55 ELSE b - 87

RECURSIVE decode_binary(_)
\* urlencoding::decode_binary: "%XY" with hex X, Y becomes one byte; a '%'
\* (byte 37) not followed by two hex digits is kept as it is.
decode_binary(s) ==
  IF s = <<>> THEN <<>>
  ELSE IF s[1] = 37 /\ Len(s) >= 3 /\ IsHex(s[2]) /\ IsHex(s[3])
    THEN <<16 * HexVal(s[2]) + HexVal(s[3])>> \o decode_binary(Drop(s, 3))
    ELSE <<s[1]>> \o decode_binary(Drop(s, 1))

\* urlencoding::decode: Err (here None) when the decoded bytes are not UTF-8.
urlencoding_decode(s) ==
  LET bytes == decode_binary(s)
  IN IF IsUtf8(bytes) THEN Some(bytes) ELSE None

----------------------------------------------------------------------------
(* Base64, standard alphabet with padding (BASE64_STANDARD) *)

\* The symbol (ASCII byte) of a 6-bit value.
B64Symbol(v) ==
  IF v < 26 THEN 65 + v
  ELSE IF v < 52 THEN 97 + (v - 26)
  ELSE IF v < 62 THEN 48 + (v - 52)
  ELSE IF v = 62 THEN 43 ELSE 47

\* The 6-bit value of a symbol, -1 for a byte outside the alphabet ('=' too).
B64Value(b) ==
  IF b >= 65 /\ b <= 90 THEN b - 65
  ELSE IF b >= 97 /\ b <= 122 THEN b - 97 + 26
  ELSE IF b >= 48 /\ b <= 57 THEN b - 48 + 52
  ELSE IF b = 43 THEN 62
  ELSE IF b = 47 THEN 63
  ELSE -1

\* Three input bytes as four symbols.
EncodeTriple(a, b, c) ==
  << B64Symbol(a \div 4),
     B64Symbol((a % 4) * 16 + (b \div 16)),
     B64Symbol((b % 16) * 4 + (c \div 64)),
     B64Symbol(c % 64) >>

RECURSIVE EncodeChunks(_)
\* Encodes the complete 3-byte groups of s (Len(s) is a multiple of 3).
EncodeChunks(s) ==
  IF Len(s) < 3 THEN <<>>
  ELSE EncodeTriple(s[1], s[2], s[3]) \o EncodeChunks(Drop(s, 3))

\* The final, padded group for the 0, 1 or 2 bytes left over ('=' is 61).
EncodeRemainder(s) ==
  IF Len(s) = 0 THEN <<>>
  ELSE IF Len(s) = 1
    THEN <<B64Symbol(s[1] \div 4), B64Symbol((s[1] % 4) * 16), 61, 61>>
    ELSE << B64Symbol(s[1] \div 4),
            B64Symbol((s[1] % 4) * 16 + (s[2] \div 16)),
            B64Symbol((s[2] % 16) * 4),
            61 >>

\* EncoderWriter::new(&mut buf, &BASE64_STANDARD): the delegate buffer and
\* the input bytes not yet encoded (fewer than 3).
EncoderWriter_new(buf) == [out |-> buf, extra |-> <<>>]

\* Write::write_all on the encoder: encodes every complete 3-byte group of
\* the pending bytes followed by the new ones, keeps the rest pending.
EncoderWriter_write(enc, bytes) ==
  LET data == enc.extra \o bytes
      full == Len(data) - (Len(data) % 3)
  IN [out |-> enc.out \o EncodeChunks(Take(data, full)), extra |-> Drop(data, full)]

\* EncoderWriter::finish (run when the encoder is dropped): the pending bytes
\* are written as a final padded group.
EncoderWriter_finish(enc) == enc.out \o EncodeRemainder(enc.extra)

\* One 4-symbol group as bytes; None when the group is not canonical base64.
\* Only the last group may carry padding, and padded groups must have zero
\* trailing bits (decode_allow_trailing_bits is false, padding is
\* RequireCanonical).
DecodeQuad(q, last) ==
  LET a == B64Value(q[1])
      b == B64Value(q[2])
      c == B64Value(q[3])
      d == B64Value(q[4])
  IN IF a < 0 \/ b < 0 THEN None
     ELSE IF c >= 0 /\ d >= 0
       THEN Some(<<a * 4 + (b \div 16), (b % 16) * 16 + (c \div 4), (c % 4) * 64 + d>>)
     ELSE IF ~last THEN None
     ELSE IF q[3] = 61 /\ q[4] = 61
       THEN IF b % 16 = 0 THEN Some(<<a * 4 + (b \div 16)>>) ELSE None
     ELSE IF c >= 0 /\ q[4] = 61
       THEN IF c % 4 = 0
            THEN Some(<<a * 4 + (b \div 16), (b % 16) * 16 + (c \div 4)>>)
            ELSE None
     ELSE None

RECURSIVE DecodeQuads(_)
DecodeQuads(s) ==
  IF s = <<>> THEN Some(<<>>)
  ELSE LET q == DecodeQuad(Take(s, 4), Len(s) = 4)
           r == DecodeQuads(Drop(s, 4))
       IN IF q.kind = "none" \/ r.kind = "none" THEN None
          ELSE Some(q.value \o r.value)

\* DecoderReader::new(..., &BASE64_STANDARD) read to its end: the decoded
\* bytes, or None on any decode error.
base64_decode(s) == IF Len(s) % 4 # 0 THEN None ELSE DecodeQuads(s)

\* read_to_string on the decoder: Err (None) on a decode error or when the
\* decoded bytes are not UTF-8.
read_to_string(s) ==
  LET d == base64_decode(s)
  IN IF d.kind = "some" /\ IsUtf8(d.value) THEN d ELSE None

----------------------------------------------------------------------------
(* Credentials *)

\* struct Credentials { username: Option<String>, password: Option<String> }
Credentials(username, password) == [username |-> username, password |-> password]

\* The debug_assert! of Credentials::new: the username is None or non-empty.
new_precondition(username) ==
  IF username.kind = "some" THEN username.value # <<>> ELSE TRUE

\* Credentials::new: a build with debug assertions panics at the
\* debug_assert! when the username is Some(""); a release build returns
\* the struct as given.
new(username, password) ==
  IF debug_assertions /\ ~new_precondition(username) THEN Fatal
  ELSE Credentials(username, password)

\* Credentials::is_empty
is_empty(c) == c.password.kind = "none" /\ c.username.kind = "none"

----------------------------------------------------------------------------
(* Url: host_str(), username(), password() of url::Url.  The username and   *)
(* password are percent-encoded; username() is "" when there is none.       *)

Url(host, username, password) ==
  [host |-> host, username |-> username, password |-> password]

\* Netrc.hosts.get(key) on the table (a function from its keys to entries
\* [login, password]).
hosts_get(table, key) == IF key \in DOMAIN table THEN Some(table[key]) ELSE None

\* Option::or_else(|| netrc.hosts.get("default"))
or_else_default(found, table) ==
  IF found.kind = "some" THEN found ELSE hosts_get(table, "default")

\* A mismatch makes the lookup fall back to the "default" entry.
from_netrc_fallback(table, u, username) ==
  IF u.host.kind = "none" THEN None
  ELSE LET entry == or_else_default(hosts_get(table, u.host.value), table)
           dflt == hosts_get(table, "default")
           ok(e) == ~(username.kind = "some" /\ username.value # e.login)
       IN IF entry.kind = "none" THEN None
          ELSE IF ok(entry.value)
            THEN Some(Credentials(Some(entry.value.login), Some(entry.value.password)))
          ELSE IF dflt.kind = "some" /\ ok(dflt.value)
            THEN Some(Credentials(Some(dflt.value.login), Some(dflt.value.password)))
          ELSE None

\* The "default" entry is consulted before the host's own entry.
from_netrc_default_first(table, u, username) ==
  IF u.host.kind = "none" THEN None
  ELSE LET d == hosts_get(table, "default")
           entry == IF d.kind = "some" THEN d ELSE hosts_get(table, u.host.value)
       IN IF entry.kind = "none" THEN None
          ELSE IF username.kind = "some" /\ username.value # entry.value.login
            THEN None
          ELSE Some(Credentials(Some(entry.value.login), Some(entry.value.password)))

\* Credentials::from_netrc
from_netrc(table, u, username) ==
  IF u.host.kind = "none" THEN None
  ELSE LET entry == or_else_default(hosts_get(table, u.host.value), table)
       IN IF entry.kind = "none" THEN None
          ELSE IF username.kind = "some" /\ username.value # entry.value.login
            THEN None
          ELSE Some(Credentials(Some(entry.value.login), Some(entry.value.password)))

\* The userinfo is copied without removing the percent-encoding.
from_url_raw(u) ==
  IF u.username = <<>> /\ u.password.kind = "none" THEN None
  ELSE Some(Credentials(IF u.username = <<>> THEN None ELSE Some(u.username),
                        u.password))

\* Credentials::from_url
from_url(u) ==
  IF u.username = <<>> /\ u.password.kind = "none" THEN None
  ELSE LET name == IF u.username = <<>> THEN Some(None)
                   ELSE LET d == urlencoding_decode(u.username)
                        IN IF d.kind = "some" THEN Some(d) ELSE None
           pass == IF u.password.kind = "none" THEN Some(None)
                   ELSE LET d == urlencoding_decode(u.password.value)
                        IN IF d.kind = "some" THEN Some(d) ELSE None
       IN IF name.kind = "none" \/ pass.kind = "none" THEN Fatal
          ELSE Some(Credentials(name.value, pass.value))

----------------------------------------------------------------------------
(* HeaderValue: its bytes and its sensitive flag *)

HeaderValue(bytes, sensitive) == [bytes |-> bytes, sensitive |-> sensitive]

\* b"Basic "
BasicPrefix == <<66, 97, 115, 105, 99, 32>>

\* A payload without ':' is taken for another scheme instead of a violation.
from_header_value_lenient(h) ==
  LET value == strip_prefix(h.bytes, BasicPrefix)
  IN IF value.kind = "none" THEN None
     ELSE LET buf == read_to_string(value.value)
          IN IF buf.kind = "none" THEN Fatal
             ELSE LET parts == split_once(buf.value)
                  IN IF parts.kind = "none" THEN None
                     ELSE SomeUnlessFatal(new(IF parts.value[1] = <<>> THEN None
                                   ELSE Some(parts.value[1]),
                                   IF parts.value[2] = <<>> THEN None
                                   ELSE Some(parts.value[2])))

\* The empty password after the ':' is kept instead of being dropped.
from_header_value_keep_empty(h) ==
  LET value == strip_prefix(h.bytes, BasicPrefix)
  IN IF value.kind = "none" THEN None
     ELSE LET buf == read_to_string(value.value)
          IN IF buf.kind = "none" THEN Fatal
             ELSE LET parts == split_once(buf.value)
                  IN IF parts.kind = "none" THEN Fatal
                     ELSE SomeUnlessFatal(new(IF parts.value[1] = <<>> THEN None
                                   ELSE Some(parts.value[1]),
                                   Some(parts.value[2])))

\* Credentials::from_header_value
from_header_value(h) ==
  LET value == strip_prefix(h.bytes, BasicPrefix)
  IN IF value.kind = "none" THEN None
     ELSE LET buf == read_to_string(value.value)
          IN IF buf.kind = "none" THEN Fatal
             ELSE LET parts == split_once(buf.value)
                  IN IF parts.kind = "none" THEN Fatal
                     ELSE SomeUnlessFatal(new(IF parts.value[1] = <<>> THEN None
                                   ELSE Some(parts.value[1]),
                                   IF parts.value[2] = <<>> THEN None
                                   ELSE Some(parts.value[2])))

\* The ':' is written only together with a password.
to_header_value_no_separator(c) ==
  LET e0 == EncoderWriter_new(BasicPrefix)
      e1 == EncoderWriter_write(e0, unwrap_or_default(c.username))
      e2 == IF c.password.kind = "some"
            THEN EncoderWriter_write(EncoderWriter_write(e1, <<58>>), c.password.value)
            ELSE e1
  IN HeaderValue(EncoderWriter_finish(e2), TRUE)

\* Credentials::to_header_value: "{username}:" and then the password, if
\* any, are written through the encoder onto b"Basic "; the encoder is
\* finished at the end of its block and the header is marked sensitive.
to_header_value(c) ==
  LET e0 == EncoderWriter_new(BasicPrefix)
      e1 == EncoderWriter_write(e0, unwrap_or_default(c.username))
      e2 == EncoderWriter_write(e1, <<58>>)
      e3 == IF c.password.kind = "some"
            THEN EncoderWriter_write(e2, c.password.value)
            ELSE e2
  IN HeaderValue(EncoderWriter_finish(e3), TRUE)

----------------------------------------------------------------------------
(* reqwest::Request: method, url and a HeaderMap, here a function from the  *)
(* header names to the sequence of values held under the name.              *)

HeaderNames == {"authorization", "accept"}

Request(method, u, headers) == [method |-> method, url |-> u, headers |-> headers]

\* Request::new(method, url): no headers.
Request_new(method, u) == Request(method, u, [n \in HeaderNames |-> <<>>])

\* HeaderMap::get: the first value held under the name, if any.
headers_get(headers, name) ==
  IF headers[name] = <<>> THEN None ELSE Some(headers[name][1])

\* HeaderMap::insert: the value replaces every value held under the name.
headers_insert(headers, name, value) == [headers EXCEPT ![name] = <<value>>]

\* The header is appended to the values already held.
authenticate_append(c, r) ==
  [r EXCEPT !.headers = [@ EXCEPT !["authorization"] = Append(@, to_header_value(c))]]

\* The header map is rebuilt with the Authorization header alone.
authenticate_rebuild(c, r) ==
  [r EXCEPT !.headers =
     [n \in HeaderNames |-> IF n = "authorization" THEN <<to_header_value(c)>> ELSE <<>>]]

\* Credentials::authenticate
authenticate(c, r) ==
  [r EXCEPT !.headers = headers_insert(@, "authorization", to_header_value(c))]

\* Credentials::from_request.  The argument of `or` is evaluated before
\* `or` runs, and its `?` returns None from from_request when the request
\* has no Authorization header, whatever from_url gave.
from_request(r) ==
  LET fromUrl == from_url(r.url)
      h == headers_get(r.headers, "authorization")
  IN IF fromUrl.kind = "fatal" THEN Fatal
     ELSE IF h.kind = "none" THEN None
     ELSE LET fromHeader == from_header_value(h.value)
          IN IF fromHeader.kind = "fatal" THEN Fatal
             ELSE IF fromUrl.kind = "some" THEN fromUrl ELSE fromHeader

----------------------------------------------------------------------------
(* Bounds and input sets *)

\* Longest percent-encoded username / password of a Url.
MaxUserinfoLen == 3

\* Longest login and password of a netrc entry.
MaxNetrcLen == 1

\* Longest payload after the scheme prefix of an incoming header.
MaxPayloadLen == 4

\* Most characters in the username / password of a Credentials value.
MaxCredChars == 2

\* Most Authorization values a request holds before authenticate.
MaxAuthValues == 2

RECURSIVE Flatten(_)
\* The concatenation of a sequence of byte strings.
Flatten(ss) == IF ss = <<>> THEN <<>> ELSE Head(ss) \o Flatten(Tail(ss))

OptionOf(S) == {None} \cup {Some(v) : v \in S}

\* '%', '3', 'A': enough for "%3A" (':'), "%33" ('3'), "%AA" (not UTF-8)
\* and for '%' left unescaped.  Url never yields a raw ':' in the userinfo.
UrlAlphabet == {37, 51, 65}

UrlTexts == SeqsUpTo(UrlAlphabet, MaxUserinfoLen)

PlainUrl == Url(Some("example.com"), <<>>, None)

\* logins over 'u', 'v'; passwords over 'p'
Logins == SeqsUpTo({117, 118}, MaxNetrcLen)

Passwords == SeqsUpTo({112}, MaxNetrcLen)

Entries == [login : Logins, password : Passwords]

NetrcKeys == {"example.com", "default"}

Tables == UNION {[K -> Entries] : K \in SUBSET NetrcKeys}

NetrcUrls == {Url(h, <<>>, None) : h \in OptionOf({"example.com", "other.org"})}

\* "Basic ", "Bearer ", "basic " and "Basic" without the space
Prefixes ==
  { BasicPrefix,
    <<66, 101, 97, 114, 101, 114, 32>>,
    <<98, 97, 115, 105, 99, 32>>,
    <<66, 97, 115, 105, 99>> }

\* 'O' 'g' 'd' 'Q' 'T' 'o' are base64 symbols ("Og==" is ":", "dTo=" is
\* "u:", "dQ==" is "u"), '=' is the padding, '!' is outside the alphabet.
PayloadAlphabet == {79, 103, 100, 81, 84, 111, 61, 33}

IncomingHeaders ==
  {HeaderValue(p \o s, FALSE) :
     p \in Prefixes, s \in SeqsUpTo(PayloadAlphabet, MaxPayloadLen)}

\* 'u', ':' and the two-byte character U+00E9
CredChars == {<<117>>, <<58>>, <<195, 169>>}

CredTexts == {Flatten(cs) : cs \in SeqsUpTo(CredChars, MaxCredChars)}

\* Every value of the struct, the username Some("") included (from_netrc
\* builds the struct without going through new).
AllCredentials == {Credentials(u, p) : u \in OptionOf(CredTexts), p \in OptionOf(CredTexts)}

\* Userinfo as in the tests: "A:3", "A%40A:3", "A:3%3D%3D", and a username
\* holding an escaped ':' ("A%3AA:3"), a username alone, a password alone.
AuthUrls ==
  { Url(Some("example.com"), <<65>>, Some(<<51>>)),
    Url(Some("example.com"), <<65, 37, 52, 48, 65>>, Some(<<51>>)),
    Url(Some("example.com"), <<65>>, Some(<<51, 37, 51, 68, 37, 51, 68>>)),
    Url(Some("example.com"), <<65, 37, 51, 65, 65>>, Some(<<51>>)),
    Url(Some("example.com"), <<65>>, None),
    Url(Some("example.com"), <<>>, Some(<<51>>)) }

\* Every Url of the bound (password() being None, Some("") or longer), the
\* Urls above, "%C3%A9@" (U+00E9) and a Url without host (which has no
\* userinfo).
Urls ==
  {Url(Some("example.com"), u, p) :
     u \in UrlTexts, p \in OptionOf(UrlTexts)}
  \cup AuthUrls
  \cup {Url(Some("example.com"), <<37, 67, 51, 37, 65, 57>>, None), Url(None, <<>>, None)}

\* Request URLs: none, "A:3@", "%3A@" and "%AA@" (not UTF-8 once decoded).
RequestUrls ==
  { PlainUrl,
    Url(Some("example.com"), <<65>>, Some(<<51>>)),
    Url(Some("example.com"), <<37, 51, 65>>, None),
    Url(Some("example.com"), <<37, 65, 65>>, None) }

\* "Bearer O", "Basic dTo=" ("u:") and "Basic !" (not base64)
SampleHeaders ==
  { HeaderValue(<<66, 101, 97, 114, 101, 114, 32, 79>>, FALSE),
    HeaderValue(BasicPrefix \o <<100, 84, 111, 61>>, FALSE),
    HeaderValue(BasicPrefix \o <<33>>, FALSE) }

\* The "accept" header, absent or "*/*".
AcceptValues == {<<>>, <<HeaderValue(<<42, 47, 42>>, FALSE)>>}

InitialRequests ==
  {Request(m, u, [n \in HeaderNames |-> IF n = "authorization" THEN a ELSE o]) :
     m \in {"GET", "POST"}, u \in RequestUrls,
     a \in SeqsUpTo(SampleHeaders, MaxAuthValues), o \in AcceptValues}

\* Credentials a caller holds: ("u","p"), (None,"p"), ("u",None), ("u","")
\* and ("u:","p").
SampleCredentials ==
  { Credentials(Some(<<117>>), Some(<<112>>)),
    Credentials(None, Some(<<112>>)),
    Credentials(Some(<<117>>), None),
    Credentials(Some(<<117>>), Some(<<>>)),
    Credentials(Some(<<117, 58>>), Some(<<112>>)) }

\* Arguments of Credentials::new: those of the values above and ("", "p"),
\* which breaks the precondition of new.
NewArguments == SampleCredentials \cup {Credentials(Some(<<>>), Some(<<112>>))}

----------------------------------------------------------------------------
(* Actions: one per operation.  A panic ends the run. *)

Running == result.kind # "fatal"

\* let credentials = Credentials::from_url(&url)  (.unwrap() in the tests)
FromUrl ==
  /\ Running
  /\ url # Unset
  /\ result' = from_url(url)
  /\ credentials' = IF result'.kind = "some" THEN result'.value ELSE credentials
  /\ op' = "from_url"
  /\ UNCHANGED <<url, netrc, expected, header, request, prior, debug_assertions>>

FromNetrc ==
  /\ Running
  /\ netrc # Unset
  /\ result' = from_netrc(netrc, url, expected)
  /\ credentials' = IF result'.kind = "some" THEN result'.value ELSE credentials
  /\ op' = "from_netrc"
  /\ UNCHANGED <<url, netrc, expected, header, request, prior, debug_assertions>>

FromHeaderValue ==
  /\ Running
  /\ header # Unset
  /\ result' = from_header_value(header)
  /\ op' = "from_header_value"
  /\ UNCHANGED <<url, netrc, expected, header, credentials, request, prior, debug_assertions>>

ToHeaderValue ==
  /\ Running
  /\ credentials # Unset
  /\ header' = to_header_value(credentials)
  /\ op' = "to_header_value"
  /\ UNCHANGED <<url, netrc, expected, credentials, request, result, prior, debug_assertions>>

\* request = credentials.authenticate(request)
Authenticate ==
  /\ Running
  /\ credentials # Unset
  /\ request # Unset
  /\ request' = authenticate(credentials, request)
  /\ prior' = Len(request.headers["authorization"])
  /\ op' = "authenticate"
  /\ UNCHANGED <<url, netrc, expected, header, credentials, result, debug_assertions>>

\* The tests' request.headers().get(AUTHORIZATION).expect(..).clone()
\* followed by header.set_sensitive(false).
GetAuthorization ==
  /\ Running
  /\ request # Unset
  /\ LET h == headers_get(request.headers, "authorization")
     IN /\ h.kind = "some"
        /\ header' = [h.value EXCEPT !.sensitive = FALSE]
  /\ op' = "get_authorization"
  /\ UNCHANGED <<url, netrc, expected, credentials, request, result, prior, debug_assertions>>

FromRequest ==
  /\ Running
  /\ request # Unset
  /\ result' = from_request(request)
  /\ op' = "from_request"
  /\ UNCHANGED <<url, netrc, expected, header, credentials, request, prior, debug_assertions>>

\* credentials = Credentials::new(username, password): the caller goes on
\* with another Credentials value, unless new panics.
NewCredentials ==
  /\ Running
  /\ \E a \in NewArguments :
       LET c == new(a.username, a.password)
       IN /\ c # credentials
          /\ IF c = Fatal
             THEN result' = Fatal /\ credentials' = credentials
             ELSE result' = result /\ credentials' = c
  /\ op' = "new"
  /\ UNCHANGED <<url, netrc, expected, header, request, prior, debug_assertions>>

----------------------------------------------------------------------------
(* Specifications *)

\* from_url on every Url of the bound.
InitUrl ==
  /\ url \in Urls
  /\ netrc = Unset /\ expected = Unset /\ header = Unset /\ credentials = Unset
  /\ request = Unset /\ result = Unset /\ op = "init" /\ prior = 0
  /\ debug_assertions \in BOOLEAN

NextUrl == FromUrl

SpecUrl == InitUrl /\ [][NextUrl]_vars

\* from_netrc on every table, host and expected username of the bound.
InitNetrc ==
  /\ netrc \in Tables
  /\ url \in NetrcUrls
  /\ expected \in OptionOf(Logins)
  /\ header = Unset /\ credentials = Unset
  /\ request = Unset /\ result = Unset /\ op = "init" /\ prior = 0
  /\ debug_assertions \in BOOLEAN

NextNetrc == FromNetrc

SpecNetrc == InitNetrc /\ [][NextNetrc]_vars

\* from_header_value on every incoming header of the bound.
InitHeader ==
  /\ header \in IncomingHeaders
  /\ url = Unset /\ netrc = Unset /\ expected = Unset /\ credentials = Unset
  /\ request = Unset /\ result = Unset /\ op = "init" /\ prior = 0
  /\ debug_assertions \in BOOLEAN

NextHeader == FromHeaderValue

SpecHeader == InitHeader /\ [][NextHeader]_vars

\* Credentials, given or read from a Url, are encoded (directly or by
\* authenticate on a fresh request, as in the tests) and parsed back.
InitRoundTrip ==
  /\ \/ credentials \in AllCredentials /\ url = Unset
     \/ credentials = Unset /\ url \in AuthUrls
  /\ request = Request_new("GET", PlainUrl)
  /\ netrc = Unset /\ expected = Unset /\ header = Unset
  /\ result = Unset /\ op = "init" /\ prior = 0
  /\ debug_assertions \in BOOLEAN

NextRoundTrip ==
  \/ FromUrl
  \/ ToHeaderValue
  \/ Authenticate
  \/ GetAuthorization
  \/ FromHeaderValue

SpecRoundTrip == InitRoundTrip /\ [][NextRoundTrip]_vars

\* Requests with any URL and headers, authenticated any number of times
\* with changing credentials and parsed with from_request.
InitRequest ==
  /\ request \in InitialRequests
  /\ credentials \in SampleCredentials
  /\ url = Unset /\ netrc = Unset /\ expected = Unset /\ header = Unset
  /\ result = Unset /\ op = "init" /\ prior = 0
  /\ debug_assertions \in BOOLEAN

NextRequest ==
  \/ Authenticate
  \/ FromRequest
  \/ NewCredentials

SpecRequest == InitRequest /\ [][NextRequest]_vars

----------------------------------------------------------------------------
(* Claims *)

\* C1: from_request returns the credentials of the request's URL whenever
\* from_url yields some, whatever the Authorization header is and also
\* without one; otherwise it returns from_header_value of the Authorization
\* header, or None when the request has none.
C1_UrlPriority ==
  op = "from_request" =>
    LET fromUrl == from_url(request.url)
        auth == request.headers["authorization"]
    IN /\ fromUrl.kind = "some" => result = fromUrl
       /\ fromUrl.kind = "none" =>
            result = IF auth = <<>> THEN None ELSE from_header_value(auth[1])

\* C2 as stated: parsing the header built from credentials whose username
\* is present and non-empty gives back exactly those credentials, whatever
\* the password.  (Every header of SpecRoundTrip was built from the
\* credentials at hand, by to_header_value or by authenticate.)
C2_RoundTripAnyPassword ==
  (op = "from_header_value" /\ credentials # Unset) =>
    (credentials.username.kind = "some" /\ credentials.username.value # <<>>
       => result = Some(credentials))

\* C2 amended: the round trip is the identity for credentials whose
\* username is present, non-empty and without ':' and whose password is
\* absent or non-empty.
C2_RoundTrip ==
  (op = "from_header_value" /\ credentials # Unset) =>
    (/\ credentials.username.kind = "some"
     /\ credentials.username.value # <<>>
     /\ IndexOf(credentials.username.value, 58) = 0
     /\ credentials.password # Some(<<>>)
     => result = Some(credentials))

\* Credentials read from the Url "A%40A:3@" were attached by authenticate,
\* the header was fetched from the request and parsed back to them.
C2_Witness ==
  /\ op = "from_header_value"
  /\ url = Url(Some("example.com"), <<65, 37, 52, 48, 65>>, Some(<<51>>))
  /\ credentials = Credentials(Some(<<65, 64, 65>>), Some(<<51>>))
  /\ request.headers["authorization"] # <<>>
  /\ header.sensitive = FALSE
  /\ header.bytes = request.headers["authorization"][1].bytes
  /\ result = Some(credentials)

\* C3: the credentials returned by from_netrc, from_url, from_request and
\* from_header_value never have a present, empty username.
C3_UsernameInvariant ==
  (op \in {"from_netrc", "from_url", "from_request", "from_header_value"}
   /\ result.kind = "some")
    => result.value.username # Some(<<>>)

\* C4: from_netrc returns None whenever an expected username is given and
\* differs from the login of the entry selected for the host (the host's
\* own entry, else "default"), also when the "default" entry has the
\* expected login; without an expected username every selected entry is
\* returned.
C4_UsernameMismatch ==
  (op = "from_netrc" /\ url.host.kind = "some") =>
    LET key == IF url.host.value \in DOMAIN netrc THEN url.host.value ELSE "default"
    IN key \in DOMAIN netrc =>
         /\ (expected.kind = "some" /\ expected.value # netrc[key].login)
              => result = None
         /\ expected.kind = "none" => result.kind = "some"

\* The host's entry has another login than the expected one, the "default"
\* entry has the expected login, and from_netrc returned None.
C4_Witness ==
  /\ op = "from_netrc"
  /\ url.host = Some("example.com")
  /\ DOMAIN netrc = {"example.com", "default"}
  /\ expected = Some(netrc["default"].login)
  /\ netrc["example.com"].login # netrc["default"].login
  /\ result = None

\* C5: from_netrc returns None when the URL has no host or the table has
\* neither the host nor "default"; otherwise, unless the expected username
\* mismatches, it returns the login and the password (empty or not, always
\* present) of the host's entry when there is one and else of "default".
C5_LookupOrder ==
  op = "from_netrc" =>
    IF url.host.kind = "none" THEN result = None
    ELSE IF url.host.value \in DOMAIN netrc
      THEN LET e == netrc[url.host.value]
           IN (expected.kind = "none" \/ expected.value = e.login)
                => result = Some([username |-> Some(e.login), password |-> Some(e.password)])
    ELSE IF "default" \in DOMAIN netrc
      THEN LET e == netrc["default"]
           IN (expected.kind = "none" \/ expected.value = e.login)
                => result = Some([username |-> Some(e.login), password |-> Some(e.password)])
    ELSE result = None

\* The host has an entry of its own, with an empty password, next to a
\* different "default" entry, and the host's entry was returned.
C5_Witness ==
  /\ op = "from_netrc"
  /\ url.host = Some("example.com")
  /\ DOMAIN netrc = {"example.com", "default"}
  /\ netrc["example.com"] # netrc["default"]
  /\ netrc["example.com"].password = <<>>
  /\ result = Some([username |-> Some(netrc["example.com"].login), password |-> Some(<<>>)])

\* C6: after an authenticate call the request holds exactly one
\* Authorization value, to_header_value() of the credentials of that call,
\* however many values it held before; applying the same credentials once
\* more leaves the request as it is.
C6_LastWriterWins ==
  op = "authenticate" =>
    /\ request.headers["authorization"] = <<to_header_value(credentials)>>
    /\ authenticate(credentials, request) = request

\* authenticate replaced several Authorization values by one.
C6_Witness ==
  /\ op = "authenticate"
  /\ prior >= 2
  /\ Len(request.headers["authorization"]) = 1

\* C7: from_header_value returns None exactly for the headers that do not
\* start with "Basic "; after "Basic ", a payload that is not base64 of
\* UTF-8 text or whose text has no ':' is fatal, any other gives credentials.
C7_AbsentVersusMalformed ==
  op = "from_header_value" =>
    LET n == Len(BasicPrefix)
        basic == Len(header.bytes) >= n /\ SubSeq(header.bytes, 1, n) = BasicPrefix
        text == read_to_string(SubSeq(header.bytes, n + 1, Len(header.bytes)))
        malformed == text.kind = "none" \/ IndexOf(text.value, 58) = 0
    IN /\ result = None <=> ~basic
       /\ basic => (result = Fatal <=> malformed)
       /\ basic => (result.kind = "some" <=> ~malformed)

\* "Basic dQ==" (base64 of "u", no ':') ended in the fatal outcome.
C7_Witness ==
  /\ op = "from_header_value"
  /\ header.bytes = BasicPrefix \o <<100, 81, 61, 61>>
  /\ result = Fatal

\* C8 as stated: from_url returns None exactly when the username is empty
\* and the password null, and otherwise credentials with the
\* percent-decoded username (None when empty) and password (None when null).
C8_FromUrlAlwaysDecodes ==
  op = "from_url" =>
    IF url.username = <<>> /\ url.password.kind = "none" THEN result = None
    ELSE result =
           Some([username |-> IF url.username = <<>> THEN None
                              ELSE Some(decode_binary(url.username)),
                 password |-> IF url.password.kind = "none" THEN None
                              ELSE Some(decode_binary(url.password.value))])

\* C8 amended: as stated, except that from_url is fatal when the
\* percent-decoded username or password is not valid UTF-8.
C8_FromUrl ==
  op = "from_url" =>
    IF url.username = <<>> /\ url.password.kind = "none" THEN result = None
    ELSE IF \/ ~IsUtf8(decode_binary(url.username))
            \/ ~IsUtf8(decode_binary(unwrap_or_default(url.password)))
      THEN result = Fatal
    ELSE result =
           Some([username |-> IF url.username = <<>> THEN None
                              ELSE Some(decode_binary(url.username)),
                 password |-> IF url.password.kind = "none" THEN None
                              ELSE Some(decode_binary(url.password.value))])

\* Password-only userinfo ":%3A@" gave (None, ":").
C8_Witness ==
  /\ op = "from_url"
  /\ url.username = <<>>
  /\ url.password = Some(<<37, 51, 65>>)
  /\ result = Some([username |-> None, password |-> Some(<<58>>)])

\* C9: the header of to_header_value, and so the one authenticate attaches,
\* is "Basic " followed by the canonical padded base64 of username ":"
\* password (an absent part being empty), and is marked sensitive.
C9_HeaderEncoding ==
  (op \in {"to_header_value", "authenticate"}) =>
    LET h == IF op = "authenticate" THEN request.headers["authorization"][1] ELSE header
        n == Len(BasicPrefix)
        text == unwrap_or_default(credentials.username) \o <<58>>
                  \o unwrap_or_default(credentials.password)
    IN /\ h.sensitive
       /\ SubSeq(h.bytes, 1, n) = BasicPrefix
       /\ base64_decode(SubSeq(h.bytes, n + 1, Len(h.bytes))) = Some(text)

\* to_header_value of (U+00E9, None) is the sensitive "Basic w6k6".
C9_Witness ==
  /\ op = "to_header_value"
  /\ credentials = Credentials(Some(<<195, 169>>), None)
  /\ header = HeaderValue(BasicPrefix \o <<119, 54, 107, 54>>, TRUE)

\* C10: an authenticate call leaves the request's method, URL and every
\* header but Authorization as they were, leaves the credentials as they
\* were, and so from_url of the request's URL too.
C10_AuthenticateFrame ==
  [][op' = "authenticate" =>
       /\ request'.method = request.method
       /\ request'.url = request.url
       /\ \A n \in HeaderNames \ {"authorization"} :
            request'.headers[n] = request.headers[n]
       /\ credentials' = credentials
       /\ from_url(request'.url) = from_url(request.url)]_vars

\* authenticate ran on a POST request with userinfo in its URL and an
\* "accept" header.
C10_Witness ==
  /\ op = "authenticate"
  /\ request.method = "POST"
  /\ request.url.username # <<>>
  /\ request.headers["accept"] # <<>>

====
